---- MODULE Spec2Model ----
(***************************************************************************)
(* URL monitor: the two schedulers of src/src/monitor.ts (class Monitor,   *)
(* one timer per URL, and class UrlMonitor, one shared timer plus the      *)
(* consecutive-failure tracker), the Slack notifier and the requests table *)
(* they write to.                                                          *)
(***************************************************************************)
EXTENDS Integers, Sequences, FiniteSets, TLC

(***************************************************************************)
(* Bounds of the model.                                                    *)
(***************************************************************************)
\* Monitor.checkURL invocations over a run
MaxChecks == 3
\* UrlMonitor.checkUrl invocations over a run
MaxProbes == 5
\* invocations that may be pending at the same time
MaxInflight == 2
\* setInterval calls over a run
MaxTimers == 3
\* start calls between two stops
MaxStarts == 2
\* the longest streak a tracker run starts from
MaxStreak == 4
\* checkUrl invocations of a tracker run
MaxTracked == 2
\* Monitor.checkURL invocations of a run that is followed to its end
MaxFollowed == 2
\* calls of the notifier over a run
MaxAlerts == 3
\* rows the requests table holds at a time
MaxRows == 2

(***************************************************************************)
(* Inputs: URL configurations and HTTP outcomes.                           *)
(***************************************************************************)
\* URLConfig rows as ConfigLoader produces them; A_US and A_GB share a url
\* and differ in the country cookie they are probed with.
A_US == [url |-> "a", name |-> "A-US", countryCode |-> "US"]
A_GB == [url |-> "a", name |-> "A-GB", countryCode |-> "GB"]
\* B carries no country code
B_ANY == [url |-> "b", name |-> "B", countryCode |-> "undefined"]
Configs == {A_US, A_GB, B_ANY}
Urls == {c.url : c \in Configs}

\* the target lists handed to Monitor.start
TargetLists == {<<A_US>>, <<A_US, B_ANY>>, <<A_US, A_GB>>}

\* final HTTP statuses a request can come back with
Statuses == {200, 301, 404}
\* what the HTTP client hands back: a response, or an exception
Outcomes ==
  {[received |-> TRUE, status |-> s, message |-> ""] : s \in Statuses}
    \cup {[received |-> FALSE, status |-> 0, message |-> "timeout"]}

\* JavaScript's a || b on strings, "undefined" standing for undefined
OrElse(a, b) == IF a \in {"", "undefined"} THEN b ELSE a

VARIABLES
  isRunning,      \* Monitor.isRunning
  intervals,      \* Monitor.intervals: url -> timer id (0: no entry)
  timers,         \* the runtime's armed interval timers
  nextTimer,      \* timer ids handed out so far
  inflight,       \* pending checkURL / checkUrl invocations
  nextProbe,      \* invocations started so far
  budget,         \* invocations the run may still start
  requests,       \* the requests table, in insertion order
  fired,          \* per configuration: probes started (initial check and ticks)
  dropped,        \* per configuration: probes whose insert failed
  unhandled,      \* a checkURL promise rejected with nobody awaiting it
  startLog,       \* what each start call since the last stop returned
  um_intervals,   \* UrlMonitor.intervals: the id under key 'main' (0: no entry)
  failureTracker, \* UrlMonitor.failureTracker: url -> count (0: no entry)
  notifiedUrls,   \* UrlMonitor.notifiedUrls
  configUrls,     \* UrlMonitor.config.urls
  trace,          \* per url: results entering the tracker and alerts, in order
  serial,         \* the interval outlasts every probe: probes of one url never overlap
  shutdown,       \* how far the process has got on its way out
  enableNotifications, \* SlackNotifier.enableNotifications
  posted,         \* the messages the webhook has accepted
  notifierLog,    \* what the notifier has written to the console
  returned,       \* how each notifier call came back to its caller
  now,            \* the clock, in ticks
  reply,          \* what the last Database call returned
  configSource,   \* what the configuration files and the environment hold
  monitorConfig,  \* the MonitorConfig loadConfiguration returned
  phase,          \* how far HeadlessApplication.run has got
  snapshot        \* the static files generateStaticFiles has written

vars == <<isRunning, intervals, timers, nextTimer, inflight, nextProbe, budget,
          requests, fired, dropped, unhandled, startLog, um_intervals,
          failureTracker, notifiedUrls, configUrls, trace, serial,
          shutdown, enableNotifications, posted, notifierLog, returned,
          now, reply, configSource, monitorConfig, phase,
          snapshot>>

appVars == <<shutdown>>
\* the schedulers and the process they run in
processVars ==
  <<isRunning, intervals, timers, nextTimer, inflight, nextProbe, budget, fired,
    dropped, unhandled, startLog, serial, um_intervals, failureTracker,
    notifiedUrls, configUrls, trace, shutdown>>
notifierVars == <<enableNotifications, posted, notifierLog, returned>>
databaseVars == <<now, reply>>
loaderVars == <<configSource, monitorConfig>>
headlessVars == <<phase, snapshot>>

monitorVars == <<isRunning, intervals>>
urlMonitorVars ==
  <<um_intervals, failureTracker, notifiedUrls, configUrls, trace>>

Pending(pcs) == {p \in inflight : p.pc \in pcs}

(***************************************************************************)
(* class Monitor                                                           *)
(***************************************************************************)
\* response.ok of the fetch API
ResponseOk(status) == status >= 200 /\ status <= 299

\* the RequestResult built by Monitor.checkURL
MonitorResult(config, out) ==
  IF out.received
  THEN [url |-> config.url, name |-> config.name,
        countryCode |-> config.countryCode,
        status |-> out.status,
        success |-> ResponseOk(out.status),
        error |-> IF ResponseOk(out.status) THEN "undefined" ELSE "HTTP status"]
  ELSE [url |-> config.url, name |-> config.name,
        countryCode |-> config.countryCode,
        status |-> 0,
        success |-> FALSE,
        error |-> OrElse(out.message, "Request failed")]

\* the scheduler state scheduleURL works on
SchedState ==
  [intervals |-> intervals, timers |-> timers, nextTimer |-> nextTimer,
   inflight |-> inflight, nextProbe |-> nextProbe, budget |-> budget,
   fired |-> fired]

\* checkURL up to its first await: the request is on its way
BeginCheckURL(config, st) ==
  [st EXCEPT !.inflight = @ \cup {[id |-> st.nextProbe + 1, cfg |-> config,
                                   pc |-> "fetch"]},
             !.nextProbe = @ + 1,
             !.budget = @ - 1,
             !.fired = [@ EXCEPT ![config] = @ + 1]]

scheduleURLWithoutInitialCheck(config, st) ==
  LET intervalId == st.nextTimer + 1
  IN [st EXCEPT !.timers = @ \cup {[id |-> intervalId, cfg |-> config]},
                !.nextTimer = intervalId,
                !.intervals = [@ EXCEPT ![config.url] = intervalId]]

\* scheduleURL: the initial check, then setInterval, then the registry entry
scheduleURL(config, st) ==
  LET checked == BeginCheckURL(config, st)
      intervalId == checked.nextTimer + 1
  IN [checked EXCEPT !.timers = @ \cup {[id |-> intervalId, cfg |-> config]},
                     !.nextTimer = intervalId,
                     !.intervals = [@ EXCEPT ![config.url] = intervalId]]

\* scheduleURL: const interval = config.interval || 60000, the period the
\* timer of a target is armed with (a number: NaN, or an integer)
Interval(config) ==
  IF "interval" \in DOMAIN config
       /\ ~config.interval.nan /\ config.interval.value # 0
  THEN config.interval.value
  ELSE 60000

RECURSIVE ScheduleAll(_, _)
ScheduleAll(urls, st) ==
  IF urls = <<>> THEN st
  ELSE ScheduleAll(Tail(urls), scheduleURL(Head(urls), st))

\* Monitor.start(urls)
MonitorStart(urls) ==
  /\ Len(startLog) < MaxStarts
  /\ IF isRunning
     THEN /\ startLog' = Append(startLog, "already-running")
          /\ UNCHANGED <<isRunning, intervals, timers, nextTimer, inflight,
                         nextProbe, budget, fired>>
     ELSE /\ nextTimer + Len(urls) <= MaxTimers
          /\ Len(urls) <= budget
          /\ LET st == ScheduleAll(urls, SchedState)
             IN /\ isRunning' = TRUE
                /\ intervals' = st.intervals
                /\ timers' = st.timers
                /\ nextTimer' = st.nextTimer
                /\ inflight' = st.inflight
                /\ nextProbe' = st.nextProbe
                /\ budget' = st.budget
                /\ fired' = st.fired
          /\ startLog' = Append(startLog, "ok")
  /\ UNCHANGED <<requests, dropped, unhandled, serial>>
  /\ UNCHANGED urlMonitorVars
  /\ UNCHANGED <<appVars, notifierVars, databaseVars, loaderVars, headlessVars>>

\* the setInterval callback of scheduleURL
MonitorTick(tm) ==
  /\ tm \in timers
  /\ budget > 0
  /\ Cardinality(inflight) < MaxInflight
  /\ LET st == BeginCheckURL(tm.cfg, SchedState)
     IN /\ inflight' = st.inflight
        /\ nextProbe' = st.nextProbe
        /\ budget' = st.budget
        /\ fired' = st.fired
  /\ UNCHANGED <<timers, nextTimer, requests, dropped, unhandled, startLog,
                 serial>>
  /\ UNCHANGED monitorVars
  /\ UNCHANGED urlMonitorVars
  /\ UNCHANGED <<appVars, notifierVars, databaseVars, loaderVars, headlessVars>>

\* checkURL from the end of fetch to the call of insertResult
MonitorFetchDone(p, out) ==
  /\ p \in Pending({"fetch"})
  /\ inflight' = (inflight \ {p})
       \cup {[id |-> p.id, cfg |-> p.cfg, pc |-> "insert",
              result |-> MonitorResult(p.cfg, out)]}
  /\ UNCHANGED <<timers, nextTimer, nextProbe, budget, requests, fired, dropped,
                 unhandled, startLog, serial>>
  /\ UNCHANGED monitorVars
  /\ UNCHANGED urlMonitorVars
  /\ UNCHANGED <<appVars, notifierVars, databaseVars, loaderVars, headlessVars>>

\* the row INSERT INTO requests stores for a result: absent optional fields
\* become NULL and the success flag becomes 1 or 0
InsertedRow(result) ==
  [url |-> result.url, name |-> result.name,
   countryCode |-> OrElse(result.countryCode, "NULL"),
   status |-> result.status,
   success |-> IF result.success THEN 1 ELSE 0,
   error |-> OrElse(result.error, "NULL")]

MonitorInsertDoneTwice(p, ok) ==
  /\ p \in Pending({"insert"})
  /\ inflight' = inflight \ {p}
  /\ IF ok
     THEN /\ requests' = requests \o <<InsertedRow(p.result),
                                       InsertedRow(p.result)>>
          /\ UNCHANGED <<dropped, unhandled>>
     ELSE /\ dropped' = [dropped EXCEPT ![p.cfg] = @ + 1]
          /\ unhandled' = TRUE
          /\ UNCHANGED requests
  /\ UNCHANGED <<timers, nextTimer, nextProbe, budget, fired, startLog,
                 serial>>
  /\ UNCHANGED monitorVars
  /\ UNCHANGED urlMonitorVars
  /\ UNCHANGED <<appVars, notifierVars, databaseVars, loaderVars, headlessVars>>

\* Database.insertResult: the INSERT ran, or it threw and the error is
\* rethrown out of checkURL, which nothing awaits
MonitorInsertDone(p, ok) ==
  /\ p \in Pending({"insert"})
  /\ inflight' = inflight \ {p}
  /\ IF ok
     THEN /\ requests' = Append(requests, InsertedRow(p.result))
          /\ UNCHANGED <<dropped, unhandled>>
     ELSE /\ dropped' = [dropped EXCEPT ![p.cfg] = @ + 1]
          /\ unhandled' = TRUE
          /\ UNCHANGED requests
  /\ UNCHANGED <<timers, nextTimer, nextProbe, budget, fired, startLog, serial>>
  /\ UNCHANGED monitorVars
  /\ UNCHANGED urlMonitorVars
  /\ UNCHANGED <<appVars, notifierVars, databaseVars, loaderVars, headlessVars>>

\* the body of Monitor.stop()
stop ==
  /\ IF ~isRunning
     THEN UNCHANGED <<isRunning, intervals, timers, startLog>>
     ELSE /\ isRunning' = FALSE
          /\ timers' = {tm \in timers :
                          \A u \in Urls : intervals[u] # tm.id}
          /\ intervals' = [u \in Urls |-> 0]
          /\ startLog' = <<>>
  /\ UNCHANGED <<nextTimer, inflight, nextProbe, budget, requests, fired, dropped,
                 unhandled, serial>>
  /\ UNCHANGED urlMonitorVars
  /\ UNCHANGED <<notifierVars, databaseVars, loaderVars, headlessVars>>

\* Monitor.stop(), called on its own
MonitorStop == stop /\ UNCHANGED appVars

(***************************************************************************)
(* class UrlMonitor                                                        *)
(***************************************************************************)
\* the success rule of UrlMonitor.checkUrl
StatusAccepted(status) == status >= 200 /\ status < 400

\* the RequestResult built by UrlMonitor.checkUrl (validateStatus accepts
\* every status, so only transport failures reach the catch block)
UrlMonitorResult(urlConfig, out) ==
  IF out.received
  THEN [url |-> urlConfig.url, name |-> urlConfig.name,
        status |-> out.status,
        success |-> StatusAccepted(out.status),
        error |-> "undefined"]
  ELSE [url |-> urlConfig.url, name |-> urlConfig.name,
        status |-> 0,
        success |-> FALSE,
        error |-> out.message]

\* the row saveResult stores: undefined binds to NULL
SavedRow(result) ==
  [url |-> result.url, name |-> result.name,
   status |-> result.status,
   success |-> IF result.success THEN 1 ELSE 0,
   error |-> IF result.error = "undefined" THEN "NULL" ELSE result.error]

\* checkUrl up to its first await: the request is on its way
BeginCheckUrl(urlConfig, st) ==
  [st EXCEPT !.inflight = @ \cup {[id |-> st.nextProbe + 1, cfg |-> urlConfig,
                                   pc |-> "request"]},
             !.nextProbe = @ + 1,
             !.budget = @ - 1,
             !.fired = [@ EXCEPT ![urlConfig] = @ + 1]]

\* config.urls.forEach / config.urls.map: one checkUrl per configured url
RECURSIVE CheckAll(_, _)
CheckAll(urlConfigs, st) ==
  IF urlConfigs = <<>> THEN st
  ELSE CheckAll(Tail(urlConfigs), BeginCheckUrl(Head(urlConfigs), st))

\* room for one more cycle: within the overlap the model explores and, when
\* probes are taken to finish within the interval, no probe still pending
CanProbe ==
  IF serial
  THEN inflight = {}
  ELSE Cardinality(inflight) + Len(configUrls) <= MaxInflight

\* UrlMonitor.startMonitoring()
StartMonitoring ==
  /\ Len(startLog) < MaxStarts
  /\ nextTimer < MaxTimers
  /\ Len(configUrls) <= budget
  /\ CanProbe
  /\ LET st == CheckAll(configUrls, SchedState)
         intervalId == nextTimer + 1
     IN /\ inflight' = st.inflight
        /\ nextProbe' = st.nextProbe
        /\ budget' = st.budget
        /\ fired' = st.fired
        /\ timers' = timers \cup {[id |-> intervalId, key |-> "main"]}
        /\ nextTimer' = intervalId
        /\ um_intervals' = intervalId
  /\ startLog' = Append(startLog, "ok")
  /\ UNCHANGED <<requests, dropped, unhandled, serial, failureTracker,
                 notifiedUrls, configUrls, trace>>
  /\ UNCHANGED monitorVars
  /\ UNCHANGED <<appVars, notifierVars, databaseVars, loaderVars, headlessVars>>

\* the setInterval callback of startMonitoring: a cycle over all urls
CycleTick(tm) ==
  /\ tm \in timers
  /\ Len(configUrls) <= budget
  /\ CanProbe
  /\ LET st == CheckAll(configUrls, SchedState)
     IN /\ inflight' = st.inflight
        /\ nextProbe' = st.nextProbe
        /\ budget' = st.budget
        /\ fired' = st.fired
  /\ UNCHANGED <<timers, nextTimer, requests, dropped, unhandled, startLog,
                 serial>>
  /\ UNCHANGED monitorVars
  /\ UNCHANGED urlMonitorVars
  /\ UNCHANGED <<appVars, notifierVars, databaseVars, loaderVars, headlessVars>>

\* UrlMonitor.stopMonitoring()
StopMonitoring ==
  /\ timers' = {tm \in timers : tm.id # um_intervals}
  /\ um_intervals' = 0
  /\ startLog' = <<>>
  /\ UNCHANGED <<nextTimer, inflight, nextProbe, budget, requests, fired, dropped,
                 unhandled, serial, failureTracker, notifiedUrls, configUrls,
                 trace>>
  /\ UNCHANGED monitorVars
  /\ UNCHANGED <<appVars, notifierVars, databaseVars, loaderVars, headlessVars>>

\* checkUrl from the end of axios.get to the call of saveResult
RequestDone(p, out) ==
  /\ p \in Pending({"request"})
  /\ inflight' = (inflight \ {p})
       \cup {[id |-> p.id, cfg |-> p.cfg, pc |-> "save",
              result |-> UrlMonitorResult(p.cfg, out)]}
  /\ UNCHANGED <<timers, nextTimer, nextProbe, budget, requests, fired, dropped,
                 unhandled, startLog, serial>>
  /\ UNCHANGED monitorVars
  /\ UNCHANGED urlMonitorVars
  /\ UNCHANGED <<appVars, notifierVars, databaseVars, loaderVars, headlessVars>>

\* consecutive failures that make a url worth an alert
FailureThreshold == 3

ThresholdExceeded(newFailureCount) == newFailureCount > FailureThreshold

\* the threshold test of handleFailureTracking
ThresholdReached(newFailureCount) == newFailureCount >= FailureThreshold

\* the streak of a url as handleFailureTracking reads it
Streak(urlKey) ==
  [n |-> failureTracker[urlKey], notified |-> urlKey \in notifiedUrls]

TrackSuccessClearsTracker(p, urlKey) ==
  IF urlKey \in notifiedUrls
  THEN /\ trace' = [trace EXCEPT ![urlKey] = @ \o <<"S", "alertR">>]
       /\ inflight' = (inflight \ {p})
            \cup {[id |-> p.id, cfg |-> p.cfg, pc |-> "recovery",
                   result |-> p.result, pre |-> Streak(urlKey)]}
       /\ UNCHANGED <<failureTracker, notifiedUrls>>
  ELSE /\ trace' = [trace EXCEPT ![urlKey] = Append(@, "S")]
       /\ failureTracker' = [u \in DOMAIN failureTracker |-> 0]
       /\ inflight' = inflight \ {p}
       /\ UNCHANGED notifiedUrls

\* handleFailureTracking, success branch, up to its await (or to its end)
TrackSuccess(p, urlKey) ==
  IF urlKey \in notifiedUrls
  THEN /\ trace' = [trace EXCEPT ![urlKey] = @ \o <<"S", "alertR">>]
       /\ inflight' = (inflight \ {p})
            \cup {[id |-> p.id, cfg |-> p.cfg, pc |-> "recovery",
                   result |-> p.result, pre |-> Streak(urlKey)]}
       /\ UNCHANGED <<failureTracker, notifiedUrls>>
  ELSE /\ trace' = [trace EXCEPT ![urlKey] = Append(@, "S")]
       /\ failureTracker' = [failureTracker EXCEPT ![urlKey] = 0]
       /\ inflight' = inflight \ {p}
       /\ UNCHANGED notifiedUrls

\* handleFailureTracking, failure branch, up to its await (or to its end)
TrackFailure(p, urlKey) ==
  LET newFailureCount == failureTracker[urlKey] + 1
  IN /\ failureTracker' = [failureTracker EXCEPT ![urlKey] = newFailureCount]
     /\ UNCHANGED notifiedUrls
     /\ IF ThresholdReached(newFailureCount) /\ urlKey \notin notifiedUrls
        THEN /\ trace' = [trace EXCEPT ![urlKey] = @ \o <<"F", "alertF">>]
             /\ inflight' = (inflight \ {p})
                  \cup {[id |-> p.id, cfg |-> p.cfg, pc |-> "failure",
                         result |-> p.result, pre |-> Streak(urlKey)]}
        ELSE /\ trace' = [trace EXCEPT ![urlKey] = Append(@, "F")]
             /\ inflight' = inflight \ {p}

\* checkUrl from the end of saveResult (a rejection is caught and logged)
\* into handleFailureTracking
SaveDone(p, ok) ==
  /\ p \in Pending({"save"})
  /\ IF ok
     THEN /\ requests' = Append(requests, SavedRow(p.result))
          /\ UNCHANGED dropped
     ELSE /\ dropped' = [dropped EXCEPT ![p.cfg] = @ + 1]
          /\ UNCHANGED requests
  /\ IF p.result.success
     THEN TrackSuccess(p, p.result.url)
     ELSE TrackFailure(p, p.result.url)
  /\ UNCHANGED <<timers, nextTimer, nextProbe, budget, fired, unhandled, startLog,
                 serial, um_intervals, configUrls>>
  /\ UNCHANGED monitorVars
  /\ UNCHANGED <<appVars, notifierVars, databaseVars, loaderVars, headlessVars>>

RecoveryReturnedKeepsCount(p) ==
  /\ p \in Pending({"recovery"})
  /\ notifiedUrls' = notifiedUrls \ {p.result.url}
  /\ inflight' = inflight \ {p}
  /\ UNCHANGED <<timers, nextTimer, nextProbe, budget, requests, fired,
                 dropped, unhandled, startLog, serial, um_intervals,
                 configUrls, trace, failureTracker>>
  /\ UNCHANGED monitorVars
  /\ UNCHANGED <<appVars, notifierVars, databaseVars, loaderVars, headlessVars>>

\* handleFailureTracking after sendRecoveryAlert has returned (it returns
\* normally whether or not the webhook took the message)
RecoveryReturned(p) ==
  /\ p \in Pending({"recovery"})
  /\ notifiedUrls' = notifiedUrls \ {p.result.url}
  /\ failureTracker' = [failureTracker EXCEPT ![p.result.url] = 0]
  /\ inflight' = inflight \ {p}
  /\ UNCHANGED <<timers, nextTimer, nextProbe, budget, requests, fired, dropped,
                 unhandled, startLog, serial, um_intervals, configUrls, trace>>
  /\ UNCHANGED monitorVars
  /\ UNCHANGED <<appVars, notifierVars, databaseVars, loaderVars, headlessVars>>

\* handleFailureTracking after sendFailureAlert has returned
FailureReturned(p) ==
  /\ p \in Pending({"failure"})
  /\ notifiedUrls' = notifiedUrls \cup {p.result.url}
  /\ inflight' = inflight \ {p}
  /\ UNCHANGED <<timers, nextTimer, nextProbe, budget, requests, fired, dropped,
                 unhandled, startLog, serial, um_intervals, configUrls, trace,
                 failureTracker>>
  /\ UNCHANGED monitorVars
  /\ UNCHANGED <<appVars, notifierVars, databaseVars, loaderVars, headlessVars>>

(***************************************************************************)
(* class SlackNotifier                                                     *)
(***************************************************************************)
\* SLACK_WEBHOOK_URL as the environment may hold it ("": not set)
WebhookUrls == {"", "https://hooks.slack.example/T1"}

\* what the caller hands over: the alert of a timeout on A-US after three
\* failures, and one that carries neither error nor group
Notifications ==
  {[url |-> "a", name |-> "A-US", consecutiveFailures |-> 3,
    lastError |-> "timeout", groupName |-> "G1"],
   [url |-> "b", name |-> "B", consecutiveFailures |-> 0,
    lastError |-> "undefined", groupName |-> "undefined"]}

\* axios.post resolves, or throws (network error, timeout, status not 2xx)
PostOutcomes == {"resolved", "thrown"}

\* the notifier has been constructed (the constructor logs either way)
Constructed == notifierLog # <<>>

\* new SlackNotifier()
NewSlackNotifier(webhookUrl) ==
  /\ ~Constructed
  /\ enableNotifications' = (OrElse(webhookUrl, "") # "")
  /\ notifierLog' = <<IF OrElse(webhookUrl, "") # "" THEN "enabled"
                      ELSE "disabled">>
  /\ UNCHANGED <<posted, returned>>
  /\ UNCHANGED <<processVars, requests, databaseVars, loaderVars, headlessVars>>

\* the body of the failure message
FailureMessage(notification) ==
  [kind |-> "alert", name |-> notification.name, url |-> notification.url,
   group |-> OrElse(notification.groupName, "Ungrouped"),
   failures |-> notification.consecutiveFailures,
   error |-> OrElse(notification.lastError, "Connection failed")]

\* the body of the recovery message
RecoveryMessage(notification) ==
  [kind |-> "recovery", name |-> notification.name, url |-> notification.url,
   group |-> OrElse(notification.groupName, "Ungrouped")]

sendFailureAlertUncaught(notification, post) ==
  /\ Constructed
  /\ Len(returned) < MaxAlerts
  /\ IF ~enableNotifications
     THEN /\ notifierLog' = Append(notifierLog, "skipped")
          /\ returned' = Append(returned, "returned")
          /\ UNCHANGED posted
     ELSE IF post = "resolved"
          THEN /\ posted' = Append(posted, FailureMessage(notification))
               /\ notifierLog' = Append(notifierLog, "sent")
               /\ returned' = Append(returned, "returned")
          ELSE /\ returned' = Append(returned, "raised")
               /\ UNCHANGED <<posted, notifierLog>>
  /\ UNCHANGED enableNotifications
  /\ UNCHANGED <<processVars, requests, databaseVars, loaderVars, headlessVars>>

\* SlackNotifier.sendFailureAlert
sendFailureAlert(notification, post) ==
  /\ Constructed
  /\ Len(returned) < MaxAlerts
  /\ IF ~enableNotifications
     THEN /\ notifierLog' = Append(notifierLog, "skipped")
          /\ returned' = Append(returned, "returned")
          /\ UNCHANGED posted
     ELSE IF post = "resolved"
          THEN /\ posted' = Append(posted, FailureMessage(notification))
               /\ notifierLog' = Append(notifierLog, "sent")
               /\ returned' = Append(returned, "returned")
          ELSE /\ notifierLog' = Append(notifierLog, "failed")
               /\ returned' = Append(returned, "returned")
               /\ UNCHANGED posted
  /\ UNCHANGED enableNotifications
  /\ UNCHANGED <<processVars, requests, databaseVars, loaderVars, headlessVars>>

\* SlackNotifier.sendRecoveryAlert
sendRecoveryAlert(notification, post) ==
  /\ Constructed
  /\ Len(returned) < MaxAlerts
  /\ IF ~enableNotifications
     THEN /\ returned' = Append(returned, "returned")
          /\ UNCHANGED <<posted, notifierLog>>
     ELSE IF post = "resolved"
          THEN /\ posted' = Append(posted, RecoveryMessage(notification))
               /\ notifierLog' = Append(notifierLog, "sent")
               /\ returned' = Append(returned, "returned")
          ELSE /\ notifierLog' = Append(notifierLog, "failed")
               /\ returned' = Append(returned, "returned")
               /\ UNCHANGED posted
  /\ UNCHANGED enableNotifications
  /\ UNCHANGED <<processVars, requests, databaseVars, loaderVars, headlessVars>>

(***************************************************************************)
(* class Database (src/src/database.ts) and the routes of WebServer that   *)
(* read it.  Timestamps are ISO strings with milliseconds; here a          *)
(* timestamp is a number of ticks, two ticks to the second, and a day is   *)
(* scaled down to one second so that a short clock crosses a cutoff.  The  *)
(* generated id is left out of the rows: nothing modelled here reads it.   *)
(***************************************************************************)
TicksPerSecond == 2
SecondsPerDay == 1
TicksPerDay == TicksPerSecond * SecondsPerDay
\* the clock runs for two days
MaxClock == 2 * TicksPerDay

\* the RequestResults handed to insertResult, before they are stamped: a
\* success and a failure of A-US, a failure of A-GB (same url), and a
\* timeout of B, which has neither country code nor group
Probed ==
  {[url |-> "a", name |-> "A-US", countryCode |-> "US", group_name |-> "G1",
    status |-> 200, responseTime |-> 1, success |-> TRUE,
    error |-> "undefined"],
   [url |-> "a", name |-> "A-US", countryCode |-> "US", group_name |-> "G1",
    status |-> 301, responseTime |-> 2, success |-> FALSE,
    error |-> "HTTP status"],
   [url |-> "a", name |-> "A-GB", countryCode |-> "GB", group_name |-> "G1",
    status |-> 404, responseTime |-> 2, success |-> FALSE,
    error |-> "HTTP status"],
   [url |-> "b", name |-> "B", countryCode |-> "undefined",
    group_name |-> "undefined", status |-> 0, responseTime |-> 2,
    success |-> FALSE, error |-> "timeout"]}

\* timestamp: new Date().toISOString()
Stamped(result, t) == result @@ [timestamp |-> t]

\* the row INSERT INTO requests stores for a complete RequestResult
RequestRow(result) ==
  InsertedRow(result) @@
    [group_name |-> OrElse(result.group_name, "NULL"),
     timestamp |-> result.timestamp,
     responseTime |-> result.responseTime]

\* Database.insertResult: the INSERT runs, or throws and is rethrown
insertResult(result, ok) ==
  /\ Len(requests) < MaxRows
  /\ IF ok
     THEN /\ requests' = Append(requests, RequestRow(result))
          /\ reply' = [op |-> "insertResult", result |-> result]
     ELSE /\ UNCHANGED requests
          /\ reply' = [op |-> "insertResult threw"]
  /\ UNCHANGED now
  /\ UNCHANGED <<processVars, notifierVars, loaderVars, headlessVars>>

\* time passes; what the last call returned is no longer looked at
ClockTick ==
  /\ now < MaxClock
  /\ now' = now + 1
  /\ reply' = [op |-> "none"]
  /\ UNCHANGED requests
  /\ UNCHANGED <<processVars, notifierVars, loaderVars, headlessVars>>

\* SQLite's datetime(): the time cut to whole seconds
datetime(timestamp) == timestamp \div TicksPerSecond

\* the modifiers the callers pass, in days
ModifierDays ==
  [m \in {"-1 days", "-24 hours", "-7 days"} |->
     IF m = "-7 days" THEN 7 ELSE 1]

\* datetime('now', modifier)
datetimeNow(days) == datetime(now) - days * SecondsPerDay

\* JavaScript's truthiness of an optional string
Truthy(x) == x \notin {"", "undefined"}

\* ORDER BY timestamp DESC (rows of equal timestamp in insertion order)
RECURSIVE OrderByTimestampDesc(_)
OrderByTimestampDesc(rows) ==
  IF rows = <<>> THEN <<>>
  ELSE LET rest == OrderByTimestampDesc(Tail(rows))
           row == Head(rows)
           later == {i \in DOMAIN rest : rest[i].timestamp > row.timestamp}
       IN SubSeq(rest, 1, Cardinality(later)) \o <<row>>
            \o SubSeq(rest, Cardinality(later) + 1, Len(rest))

\* Database.getResults(timeRange, groupName)
getResults(timeRange, groupName) ==
  LET Matches(row) ==
        /\ datetime(row.timestamp) >= datetimeNow(ModifierDays[timeRange])
        /\ Truthy(groupName) => row.group_name = groupName
      rows == OrderByTimestampDesc(SelectSeq(requests, Matches))
  IN [i \in DOMAIN rows |-> [rows[i] EXCEPT !.success = (@ # 0)]]

\* query strings of GET /api/results: no parameter, a group, a name
ResultQueries ==
  {[timeRange |-> "undefined", group |-> "undefined", urlName |-> "undefined"],
   [timeRange |-> "-1 days", group |-> "G1", urlName |-> "undefined"],
   [timeRange |-> "-1 days", group |-> "undefined", urlName |-> "A-US"]}

\* query strings of GET /api/stats
StatsQueries == {[timeRange |-> "-1 days"]}

\* WebServer GET /api/results
ApiResults(query) ==
  /\ reply' = [op |-> "GET /api/results", query |-> query,
               body |-> getResults(OrElse(query.timeRange, "-24 hours"),
                                   query.group)]
  /\ UNCHANGED <<requests, now>>
  /\ UNCHANGED <<processVars, notifierVars, loaderVars, headlessVars>>

\* the columns getStats groups by
GroupKey(row) ==
  [url |-> row.url, name |-> row.name, group_name |-> row.group_name,
   countryCode |-> row.countryCode]

\* SUM over the rows at the given positions of the value each one gives
SumOver(positions, value) ==
  LET Total[S \in SUBSET positions] ==
        IF S = {} THEN 0
        ELSE LET i == CHOOSE x \in S : TRUE
             IN value[i] + Total[S \ {i}]
  IN Total[positions]

MathFloor(sum, count) == sum \div count

\* Math.round of sum / count, for a sum that is not negative
MathRound(sum, count) == (2 * sum + count) \div (2 * count)

RECURSIVE Gcd(_, _)
Gcd(a, b) == IF b = 0 THEN a ELSE Gcd(b, a % b)

\* (successful / total) * 100 as the exact fraction it stands for
SuccessRate(successful, total) ==
  IF total > 0
  THEN LET g == Gcd(successful * 100, total)
       IN [num |-> (successful * 100) \div g, den |-> total \div g]
  ELSE [num |-> 0, den |-> 1]

\* Database.getStats(timeRange): every answer the query can give; the
\* subquery for lastStatus takes the newest row of the url, any of them
\* when several are equally new
getStats(timeRange) ==
  LET inRange == {i \in DOMAIN requests :
                    datetime(requests[i].timestamp)
                      >= datetimeNow(ModifierDays[timeRange])}
      keys == {GroupKey(requests[i]) : i \in inRange}
      Group(k) == {i \in inRange : GroupKey(requests[i]) = k}
      OfUrl(u) == {i \in DOMAIN requests : requests[i].url = u}
      Newest(u) == {i \in OfUrl(u) :
                      \A j \in OfUrl(u) :
                        requests[j].timestamp <= requests[i].timestamp}
      succeeded == [i \in DOMAIN requests |->
                      IF requests[i].success = 1 THEN 1 ELSE 0]
      failed == [i \in DOMAIN requests |->
                   IF requests[i].success = 0 THEN 1 ELSE 0]
      responseTime == [i \in DOMAIN requests |-> requests[i].responseTime]
      Stat(k, last) ==
        [url |-> k.url, name |-> k.name, group_name |-> k.group_name,
         countryCode |-> k.countryCode,
         totalRequests |-> Cardinality(Group(k)),
         successfulRequests |-> SumOver(Group(k), succeeded),
         failedRequests |-> SumOver(Group(k), failed),
         successRate |-> SuccessRate(SumOver(Group(k), succeeded),
                                     Cardinality(Group(k))),
         averageResponseTime |-> MathRound(SumOver(Group(k), responseTime),
                                           Cardinality(Group(k))),
         lastChecked |-> CHOOSE t \in {requests[i].timestamp : i \in Group(k)} :
                           \A i \in Group(k) : requests[i].timestamp <= t,
         lastStatus |-> requests[last].status]
  IN {{Stat(k, pick[k]) : k \in keys} :
        pick \in {f \in [keys -> DOMAIN requests] :
                    \A k \in keys : f[k] \in Newest(k.url)}}

\* WebServer GET /api/stats
ApiStats(query) ==
  /\ \E body \in getStats(OrElse(query.timeRange, "-24 hours")) :
       reply' = [op |-> "GET /api/stats", query |-> query, body |-> body]
  /\ UNCHANGED <<requests, now>>
  /\ UNCHANGED <<processVars, notifierVars, loaderVars, headlessVars>>

cleanupInclusive(olderThanDays) ==
  LET Kept(row) ==
        ~(datetime(row.timestamp) <= datetimeNow(olderThanDays))
  IN /\ requests' = SelectSeq(requests, Kept)
     /\ reply' = [op |-> "cleanup", olderThanDays |-> olderThanDays,
                  changes |-> Len(requests) - Len(SelectSeq(requests, Kept))]
     /\ UNCHANGED now
     /\ UNCHANGED <<processVars, notifierVars, loaderVars>>

\* Database.cleanup(olderThanDays)
cleanup(olderThanDays) ==
  LET Kept(row) ==
        ~(datetime(row.timestamp) < datetimeNow(olderThanDays))
  IN /\ requests' = SelectSeq(requests, Kept)
     /\ reply' = [op |-> "cleanup", olderThanDays |-> olderThanDays,
                  changes |-> Len(requests) - Len(SelectSeq(requests, Kept))]
     /\ UNCHANGED now
     /\ UNCHANGED <<processVars, notifierVars, loaderVars>>

\* ORDER BY name, as far as the names of the inputs go
NameOrder == [n \in {"A-GB", "A-US", "B"} |->
                IF n = "A-GB" THEN 1 ELSE IF n = "A-US" THEN 2 ELSE 3]

\* Database.getGroupHierarchy(): the DISTINCT rows that carry a group, put
\* under group|country keys, one {url, name} per url within a key
getGroupHierarchy ==
  LET rows == {[group_name |-> requests[i].group_name,
                countryCode |-> requests[i].countryCode,
                url |-> requests[i].url, name |-> requests[i].name] :
                 i \in {j \in DOMAIN requests :
                          requests[j].group_name \notin {"NULL", ""}}}
      Key(row) == <<row.group_name, OrElse(
                      IF row.countryCode = "NULL" THEN "" ELSE row.countryCode,
                      "no-country")>>
      First(row) ==
        \A other \in rows :
          (Key(other) = Key(row) /\ other.url = row.url) =>
            NameOrder[row.name] <= NameOrder[other.name]
  IN {[group_name |-> row.group_name,
       countryCode |-> IF row.countryCode = "NULL" THEN "undefined"
                       ELSE row.countryCode,
       urls |-> {[url |-> r.url, name |-> r.name] :
                   r \in {x \in rows : Key(x) = Key(row) /\ First(x)}}] :
        row \in rows}

\* WebServer GET /api/group-hierarchy
ApiGroupHierarchy ==
  /\ reply' = [op |-> "GET /api/group-hierarchy", body |-> getGroupHierarchy]
  /\ UNCHANGED <<requests, now>>
  /\ UNCHANGED <<processVars, notifierVars, loaderVars, headlessVars>>

(***************************************************************************)
(* class ConfigLoader (src/unnamed/part_002).  A text is a sequence of     *)
(* characters; a field the file does not carry is Undefined.               *)
(***************************************************************************)
Undefined == <<"undefined">>

\* String.prototype.trim, for the blanks the inputs carry
RECURSIVE trim(_)
trim(text) ==
  IF text = <<>> THEN text
  ELSE IF Head(text) = " " THEN trim(Tail(text))
  ELSE IF text[Len(text)] = " " THEN trim(SubSeq(text, 1, Len(text) - 1))
  ELSE text

\* field?.trim()
trimmed(field) == IF field = Undefined THEN Undefined ELSE trim(field)

\* a || b on texts
TextOrElse(a, b) == IF a = Undefined \/ a = <<>> THEN b ELSE a

\* String.prototype.startsWith
startsWith(text, prefix) ==
  /\ Len(text) >= Len(prefix)
  /\ SubSeq(text, 1, Len(prefix)) = prefix

\* a number as JavaScript holds it: NaN, or an integer
NaN == [nan |-> TRUE, value |-> 0]
Num(v) == [nan |-> FALSE, value |-> v]

\* a || b on numbers: NaN and 0 are falsy
NumOrElse(a, b) == IF a.nan \/ a.value = 0 THEN b ELSE a

DigitValue ==
  [ch \in {"0", "1", "2", "3", "4", "5", "6", "7", "8", "9"} |->
     CASE ch = "0" -> 0 [] ch = "1" -> 1 [] ch = "2" -> 2 [] ch = "3" -> 3
       [] ch = "4" -> 4 [] ch = "5" -> 5 [] ch = "6" -> 6 [] ch = "7" -> 7
       [] ch = "8" -> 8 [] ch = "9" -> 9]

\* the value of the digits a text begins with, after the digits read so far
RECURSIVE LeadingDigits(_, _)
LeadingDigits(text, read) ==
  IF text = <<>> \/ Head(text) \notin DOMAIN DigitValue THEN read
  ELSE LeadingDigits(Tail(text),
                     [count |-> read.count + 1,
                      value |-> 10 * read.value + DigitValue[Head(text)]])

\* parseInt(text): blanks, a sign, then digits up to the first other
\* character; NaN when there is no digit (or no text)
parseInt(text) ==
  IF text = Undefined THEN NaN
  ELSE LET s == trim(text)
           signed == s # <<>> /\ Head(s) \in {"-", "+"}
           digits == LeadingDigits(IF signed THEN Tail(s) ELSE s,
                                   [count |-> 0, value |-> 0])
       IN IF digits.count = 0 THEN NaN
          ELSE Num(IF signed /\ Head(s) = "-" THEN -digits.value
                   ELSE digits.value)

\* the validation both loaders apply: !url.url?.startsWith('http')
Skipped(url) == url = Undefined \/ ~startsWith(url, <<"h", "t", "t", "p">>)

\* the 'data' handler of loadFromCSV: the URLConfig of a row
CsvUrlConfig(row, defaultInterval) ==
  [url |-> trimmed(row.url),
   name |-> TextOrElse(trimmed(row.name), trimmed(row.url)),
   countryCode |-> TextOrElse(trimmed(row.countryCode), Undefined),
   group_name |-> TextOrElse(trimmed(row.group), Undefined),
   interval |-> NumOrElse(NumOrElse(parseInt(row.interval), defaultInterval),
                          Num(60000))]

\* ConfigLoader.loadFromCSV: the rows whose url passes, in file order
RECURSIVE CsvUrls(_, _)
CsvUrls(rows, defaultInterval) ==
  IF rows = <<>> THEN <<>>
  ELSE LET url == CsvUrlConfig(Head(rows), defaultInterval)
       IN (IF Skipped(url.url) THEN <<>> ELSE <<url>>)
            \o CsvUrls(Tail(rows), defaultInterval)

loadFromCSV(rows, defaultInterval) ==
  [urls |-> CsvUrls(rows, defaultInterval),
   defaultInterval |-> NumOrElse(defaultInterval, Num(60000))]

\* ConfigLoader.loadFromJSON: the parsed file with the entries that pass
loadFromJSON(parsed) ==
  LET Passes(url) == ~Skipped(url.url)
  IN [parsed EXCEPT !.urls = SelectSeq(@, Passes)]

\* rows as csv-parser hands them over: a url with a blank in front, a row
\* with nothing but a url, an ftp url, a row without url, a host name with
\* no scheme, and a negative interval
CsvRows ==
  {[url |-> <<" ", "h", "t", "t", "p", ":", "/", "/", "a">>, name |-> <<"A">>,
    countryCode |-> <<"U", "S">>, group |-> <<"G">>, interval |-> <<"3", "0">>],
   [url |-> <<"h", "t", "t", "p", "s", ":", "/", "/", "b">>, name |-> Undefined,
    countryCode |-> Undefined, group |-> Undefined, interval |-> Undefined],
   [url |-> <<"f", "t", "p", ":", "/", "/", "c">>, name |-> <<"C">>,
    countryCode |-> Undefined, group |-> Undefined, interval |-> Undefined],
   [url |-> Undefined, name |-> <<"D">>,
    countryCode |-> Undefined, group |-> Undefined, interval |-> <<"0">>],
   [url |-> <<"h", "t", "t", "p", "b", "i", "n">>, name |-> <<"E">>,
    countryCode |-> Undefined, group |-> Undefined, interval |-> <<"x">>],
   [url |-> <<"h", "t", "t", "p", ":", "/", "/", "f">>, name |-> <<"F">>,
    countryCode |-> Undefined, group |-> Undefined,
    interval |-> <<"-", "5">>]}

\* urls.csv: up to as many rows as timers may be armed
CsvFiles ==
  UNION {[1..n -> CsvRows] : n \in 0..MaxTimers}

\* entries of config.json: a valid one, an ftp url, a negative interval
JsonUrls ==
  {[url |-> <<"h", "t", "t", "p", ":", "/", "/", "a">>, name |-> <<"A">>,
    countryCode |-> Undefined, group_name |-> Undefined, interval |-> Num(30)],
   [url |-> <<"f", "t", "p", ":", "/", "/", "c">>, name |-> <<"C">>,
    countryCode |-> Undefined, group_name |-> Undefined, interval |-> NaN],
   [url |-> <<"h", "t", "t", "p", ":", "/", "/", "f">>, name |-> <<"F">>,
    countryCode |-> Undefined, group_name |-> Undefined,
    interval |-> Num(-5)]}

JsonFiles ==
  {[urls |-> urls, defaultInterval |-> Num(60000)] :
     urls \in UNION {[1..n -> JsonUrls] : n \in 0..1}}

\* CHECK_INTERVAL as the environment may hold it
CheckIntervals == {Undefined, <<"-", "1">>}

NoFile == [exists |-> FALSE]
File(content) == [exists |-> TRUE, content |-> content]

\* no configuration file, nothing in the environment
NoSource == [csv |-> NoFile, json |-> NoFile, CHECK_INTERVAL |-> Undefined]

\* what a process may find: urls.csv, or else config.json, or neither
ConfigSources ==
  {[csv |-> File(rows), json |-> NoFile, CHECK_INTERVAL |-> env] :
     rows \in CsvFiles, env \in CheckIntervals}
    \cup {[csv |-> NoFile, json |-> File(parsed), CHECK_INTERVAL |-> Undefined] :
            parsed \in JsonFiles}
    \cup {NoSource}

\* loadConfiguration has not returned
NoConfig == [loaded |-> FALSE]
\* generateStaticFiles has not run
NoSnapshot == [written |-> FALSE]
Loaded == "urls" \in DOMAIN monitorConfig

\* the defaultInterval Application.loadConfiguration passes to loadFromCSV
EnvDefaultInterval(source) ==
  parseInt(TextOrElse(source.CHECK_INTERVAL, <<"6", "0", "0", "0", "0">>))

\* every URLConfig a load can return
LoadableConfigs ==
  {CsvUrlConfig(row, EnvDefaultInterval([CHECK_INTERVAL |-> env])) :
     row \in {r \in CsvRows : r.url # Undefined}, env \in CheckIntervals}
    \cup JsonUrls

(***************************************************************************)
(* class Application: one start, the graceful shutdown, and the runtime's  *)
(* answer to a promise that rejects with nobody handling it.               *)
(***************************************************************************)
\* the process is still executing
Alive == shutdown \notin {"exited", "crashed", "failed"}
\* database.close() has not been called
DatabaseOpen == shutdown \in {"none", "stopped", "server stopped"}

\* Application.start: monitor.start(config.urls), once per process
AppStart(urls) ==
  /\ shutdown = "none"
  /\ startLog = <<>>
  /\ MonitorStart(urls)

\* Application.loadConfiguration inside Application.start: urls.csv, or else
\* config.json; with neither, start's catch ends the process with exit(1)
LoadConfiguration ==
  /\ shutdown = "none"
  /\ ~Loaded
  /\ IF configSource.csv.exists
     THEN /\ monitorConfig' = loadFromCSV(configSource.csv.content,
                                          EnvDefaultInterval(configSource))
          /\ UNCHANGED shutdown
     ELSE IF configSource.json.exists
          THEN /\ monitorConfig' = loadFromJSON(configSource.json.content)
               /\ UNCHANGED shutdown
          ELSE /\ shutdown' = "failed"
               /\ UNCHANGED monitorConfig
  /\ UNCHANGED configSource
  /\ UNCHANGED <<isRunning, intervals, timers, nextTimer, inflight, nextProbe,
                 budget, requests, fired, dropped, unhandled, startLog, serial>>
  /\ UNCHANGED urlMonitorVars
  /\ UNCHANGED <<notifierVars, databaseVars, headlessVars>>

\* Application.start after loadConfiguration: monitor.start(config.urls)
StartLoaded ==
  /\ Loaded
  /\ AppStart(monitorConfig.urls)

AppTick(tm) == Alive /\ MonitorTick(tm)

AppFetchDone(p, out) == Alive /\ MonitorFetchDone(p, out)

\* insertResult as the process sees it: on a closed connection it rejects
AppInsertDone(p, ok) ==
  /\ Alive
  /\ DatabaseOpen \/ ~ok
  /\ MonitorInsertDone(p, ok)

\* the signal handler of setupGracefulShutdown up to monitor.stop()
Shutdown ==
  /\ shutdown = "none"
  /\ isRunning
  /\ stop
  /\ shutdown' = "stopped"

\* the handler after monitor.stop() has resolved: webServer.stop()
ShutdownWebServer ==
  /\ shutdown = "stopped"
  /\ shutdown' = "server stopped"
  /\ UNCHANGED <<isRunning, intervals, timers, nextTimer, inflight, nextProbe,
                 budget, requests, fired, dropped, unhandled, startLog, serial>>
  /\ UNCHANGED urlMonitorVars
  /\ UNCHANGED <<notifierVars, databaseVars, loaderVars, headlessVars>>

\* the handler after webServer.stop() has resolved: database.close()
ShutdownClose ==
  /\ shutdown = "server stopped"
  /\ shutdown' = "closed"
  /\ UNCHANGED <<isRunning, intervals, timers, nextTimer, inflight, nextProbe,
                 budget, requests, fired, dropped, unhandled, startLog, serial>>
  /\ UNCHANGED urlMonitorVars
  /\ UNCHANGED <<notifierVars, databaseVars, loaderVars, headlessVars>>

\* the handler after database.close() has resolved: process.exit(0); what
\* is still pending ends with the process
ShutdownExit ==
  /\ shutdown = "closed"
  /\ shutdown' = "exited"
  /\ UNCHANGED <<isRunning, intervals, timers, nextTimer, inflight, nextProbe,
                 budget, requests, fired, dropped, unhandled, startLog, serial>>
  /\ UNCHANGED urlMonitorVars
  /\ UNCHANGED <<notifierVars, databaseVars, loaderVars, headlessVars>>

\* a checkURL promise has rejected and nothing handles it: the runtime ends
\* the process (the runtimes that have fetch and AbortSignal.timeout do so
\* unless told otherwise; one that only warns never takes this step)
UnhandledRejection ==
  /\ Alive
  /\ unhandled
  /\ shutdown' = "crashed"
  /\ UNCHANGED <<isRunning, intervals, timers, nextTimer, inflight, nextProbe,
                 budget, requests, fired, dropped, unhandled, startLog, serial>>
  /\ UNCHANGED urlMonitorVars
  /\ UNCHANGED <<notifierVars, databaseVars, loaderVars, headlessVars>>

(***************************************************************************)
(* class HeadlessApplication (src/unnamed/part_007): one monitoring cycle  *)
(* over all targets, the static files, the cleanup, and the way out.       *)
(***************************************************************************)
\* urlConfig.group_name of a target (the targets here carry none)
GroupNameOf(urlConfig) ==
  IF "group_name" \in DOMAIN urlConfig THEN urlConfig.group_name
  ELSE "undefined"

\* the object the try block of runSingleCycle hands to insertResult
CycleResult(urlConfig, out, startTime) ==
  [url |-> urlConfig.url, name |-> urlConfig.name,
   countryCode |-> urlConfig.countryCode,
   group_name |-> GroupNameOf(urlConfig),
   timestamp |-> now,
   status |-> out.status,
   responseTime |-> now - startTime,
   success |-> ResponseOk(out.status),
   error |-> IF ResponseOk(out.status) THEN "undefined" ELSE "HTTP status"]

\* the object the catch block of runSingleCycle hands to insertResult,
\* whatever was thrown in the try block, by fetch or by insertResult; the
\* start time of the try block is out of its reach
CycleCatchResult(urlConfig, message) ==
  [url |-> urlConfig.url, name |-> urlConfig.name,
   countryCode |-> urlConfig.countryCode,
   group_name |-> GroupNameOf(urlConfig),
   timestamp |-> now,
   status |-> 0,
   responseTime |-> now - now,
   success |-> FALSE,
   error |-> OrElse(message, "Request failed")]

\* the callback of config.urls.map up to its first await
BeginCycleCheck(urlConfig, st) ==
  [st EXCEPT !.inflight = @ \cup {[id |-> st.nextProbe + 1, cfg |-> urlConfig,
                                   pc |-> "cycle fetch", startTime |-> now]},
             !.nextProbe = @ + 1,
             !.budget = @ - 1,
             !.fired = [@ EXCEPT ![urlConfig] = @ + 1]]

RECURSIVE CycleAll(_, _)
CycleAll(urlConfigs, st) ==
  IF urlConfigs = <<>> THEN st
  ELSE CycleAll(Tail(urlConfigs), BeginCycleCheck(Head(urlConfigs), st))

\* what the scheduler and the application leave alone in a headless run
cycleFrame ==
  <<isRunning, intervals, timers, nextTimer, unhandled, startLog, serial,
    shutdown, um_intervals, failureTracker, notifiedUrls, configUrls, trace>>

\* HeadlessApplication.run up to the await of Promise.all: every target's
\* request is on its way
RunSingleCycle(urls) ==
  /\ phase = "idle"
  /\ Len(urls) <= budget
  /\ LET st == CycleAll(urls, SchedState)
     IN /\ inflight' = st.inflight
        /\ nextProbe' = st.nextProbe
        /\ budget' = st.budget
        /\ fired' = st.fired
  /\ phase' = "cycle"
  /\ UNCHANGED <<requests, dropped, snapshot>>
  /\ UNCHANGED <<cycleFrame, notifierVars, databaseVars, loaderVars>>

\* the callback from the end of fetch to the call of insertResult, in the
\* try block when a response came and in the catch block when fetch threw
CycleFetchDone(p, out) ==
  /\ phase = "cycle"
  /\ p \in Pending({"cycle fetch"})
  /\ inflight' = (inflight \ {p})
       \cup {IF out.received
             THEN [id |-> p.id, cfg |-> p.cfg, pc |-> "cycle insert",
                   startTime |-> p.startTime, got |-> out,
                   result |-> CycleResult(p.cfg, out, p.startTime)]
             ELSE [id |-> p.id, cfg |-> p.cfg, pc |-> "cycle catch",
                   startTime |-> p.startTime, got |-> out,
                   result |-> CycleCatchResult(p.cfg, out.message)]}
  /\ UNCHANGED <<nextProbe, budget, fired, requests, dropped, phase, snapshot>>
  /\ UNCHANGED <<cycleFrame, notifierVars, databaseVars, loaderVars>>

\* insertResult of the try block has come back: the row is stored, or the
\* INSERT threw and the catch block builds its own result
CycleInsertDone(p, ok) ==
  /\ phase = "cycle"
  /\ p \in Pending({"cycle insert"})
  /\ IF ok
     THEN /\ requests' = Append(requests, RequestRow(p.result))
          /\ inflight' = inflight \ {p}
     ELSE /\ UNCHANGED requests
          /\ inflight' = (inflight \ {p})
               \cup {[p EXCEPT !.pc = "cycle catch",
                               !.result =
                                 CycleCatchResult(p.cfg, "insert failed")]}
  /\ UNCHANGED <<nextProbe, budget, fired, dropped, phase, snapshot>>
  /\ UNCHANGED <<cycleFrame, notifierVars, databaseVars, loaderVars>>

\* insertResult of the catch block has come back: the row is stored, or the
\* callback's promise rejects, Promise.all rejects with it, and the catch of
\* run ends the process with exit(1), whatever is still pending
CycleCatchInsertDone(p, ok) ==
  /\ phase = "cycle"
  /\ p \in Pending({"cycle catch"})
  /\ inflight' = inflight \ {p}
  /\ IF ok
     THEN /\ requests' = Append(requests, RequestRow(p.result))
          /\ UNCHANGED <<dropped, phase>>
     ELSE /\ dropped' = [dropped EXCEPT ![p.cfg] = @ + 1]
          /\ phase' = "failed"
          /\ UNCHANGED requests
  /\ UNCHANGED <<nextProbe, budget, fired, snapshot>>
  /\ UNCHANGED <<cycleFrame, notifierVars, databaseVars, loaderVars>>

generateStaticFilesUnjoined(ok) ==
  /\ phase = "cycle"
  /\ IF ok
     THEN /\ \E stats \in getStats("-24 hours") :
               snapshot' = [written |-> TRUE,
                            results |-> getResults("-7 days", "undefined"),
                            hierarchy |-> getGroupHierarchy,
                            stats |-> stats]
          /\ phase' = "generated"
     ELSE /\ phase' = "failed"
          /\ UNCHANGED snapshot
  /\ UNCHANGED <<inflight, nextProbe, budget, fired, requests, dropped>>
  /\ UNCHANGED <<cycleFrame, notifierVars, databaseVars, loaderVars>>

\* run after Promise.all has resolved: generateStaticFiles writes the three
\* files, or throws and the catch of run ends the process with exit(1)
generateStaticFiles(ok) ==
  /\ phase = "cycle"
  /\ inflight = {}
  /\ IF ok
     THEN /\ \E stats \in getStats("-24 hours") :
               snapshot' = [written |-> TRUE,
                            results |-> getResults("-7 days", "undefined"),
                            hierarchy |-> getGroupHierarchy,
                            stats |-> stats]
          /\ phase' = "generated"
     ELSE /\ phase' = "failed"
          /\ UNCHANGED snapshot
  /\ UNCHANGED <<inflight, nextProbe, budget, fired, requests, dropped>>
  /\ UNCHANGED <<cycleFrame, notifierVars, databaseVars, loaderVars>>

\* CLEANUP_DAYS as the environment may hold it (absent: 30)
CleanupDays == {1, 30}

\* run after generateStaticFiles: cleanupOldData, whose failure is logged
cleanupOldData(cleanupDays, ok) ==
  /\ phase = "generated"
  /\ phase' = "cleaned"
  /\ UNCHANGED snapshot
  /\ IF ok
     THEN cleanup(cleanupDays)
     ELSE UNCHANGED <<requests, processVars, notifierVars, databaseVars,
                      loaderVars>>

\* the finally of run: database.close()
HeadlessClose ==
  /\ phase = "cleaned"
  /\ phase' = "closed"
  /\ UNCHANGED snapshot
  /\ UNCHANGED <<requests, processVars, notifierVars, databaseVars, loaderVars>>

\* time passes while the cycle waits for its requests and inserts
CycleClockTick == phase = "cycle" /\ ClockTick

(***************************************************************************)
(* Initial states and specifications.                                      *)
(***************************************************************************)
\* the state after construction: nothing scheduled, nothing stored, and the
\* streak of every url as given (none after a fresh start)
BootOver(configs, source, monitored, probes, isSerial, counts, notified) ==
  /\ isRunning = FALSE
  /\ intervals = [u \in {c.url : c \in configs} |-> 0]
  /\ timers = {}
  /\ nextTimer = 0
  /\ inflight = {}
  /\ nextProbe = 0
  /\ budget = probes
  /\ requests = <<>>
  /\ fired = [c \in configs |-> 0]
  /\ dropped = [c \in configs |-> 0]
  /\ unhandled = FALSE
  /\ startLog = <<>>
  /\ um_intervals = 0
  /\ failureTracker = counts
  /\ notifiedUrls = notified
  /\ configUrls = monitored
  /\ trace = [u \in Urls |-> <<>>]
  /\ serial = isSerial
  /\ shutdown = "none"
  /\ enableNotifications = FALSE
  /\ posted = <<>>
  /\ notifierLog = <<>>
  /\ returned = <<>>
  /\ now = 0
  /\ reply = [op |-> "none"]
  /\ configSource = source
  /\ monitorConfig = NoConfig
  /\ phase = "idle"
  /\ snapshot = NoSnapshot

\* the state after construction with the targets of the scheduler models
Boot(probes, isSerial, counts, notified) ==
  BootOver(Configs, NoSource, <<A_US>>, probes, isSerial, counts, notified)

NoFailures == [u \in Urls |-> 0]

Init == Boot(MaxChecks, FALSE, NoFailures, {})

NextMonitor ==
  \/ \E urls \in TargetLists : MonitorStart(urls)
  \/ \E tm \in timers : MonitorTick(tm)
  \/ \E p \in inflight, out \in Outcomes : MonitorFetchDone(p, out)
  \/ \E p \in inflight, ok \in BOOLEAN : MonitorInsertDone(p, ok)
  \/ MonitorStop

\* class Monitor over the requests table
SpecMonitor == Init /\ [][NextMonitor]_vars

\* class Monitor, every request ending (the fetch carries a timeout) and
\* every INSERT coming back
InitFollowed == Boot(MaxFollowed, FALSE, NoFailures, {})
SpecMonitorFair ==
  /\ InitFollowed
  /\ [][NextMonitor]_vars
  /\ WF_vars(\E p \in inflight, out \in Outcomes : MonitorFetchDone(p, out))
  /\ WF_vars(\E p \in inflight, ok \in BOOLEAN : MonitorInsertDone(p, ok))

NextApplication ==
  \/ \E urls \in TargetLists : AppStart(urls)
  \/ \E tm \in timers : AppTick(tm)
  \/ \E p \in inflight, out \in Outcomes : AppFetchDone(p, out)
  \/ \E p \in inflight, ok \in BOOLEAN : AppInsertDone(p, ok)
  \/ Shutdown
  \/ ShutdownWebServer
  \/ ShutdownClose
  \/ ShutdownExit
  \/ UnhandledRejection

\* class Application around class Monitor
SpecApplication == Init /\ [][NextApplication]_vars

NextHeadless ==
  \/ \E urls \in TargetLists : RunSingleCycle(urls)
  \/ \E p \in inflight, out \in Outcomes : CycleFetchDone(p, out)
  \/ \E p \in inflight, ok \in BOOLEAN : CycleInsertDone(p, ok)
  \/ \E p \in inflight, ok \in BOOLEAN : CycleCatchInsertDone(p, ok)
  \/ \E ok \in BOOLEAN : generateStaticFiles(ok)
  \/ \E cleanupDays \in CleanupDays, ok \in BOOLEAN :
       cleanupOldData(cleanupDays, ok)
  \/ HeadlessClose
  \/ CycleClockTick

\* class HeadlessApplication: one run
SpecHeadless == Init /\ [][NextHeadless]_vars

NextStartup ==
  \/ LoadConfiguration
  \/ StartLoaded

\* Application.start over what the configuration files may hold
InitStartup ==
  \E source \in ConfigSources :
    BootOver(LoadableConfigs, source, <<>>, MaxChecks, FALSE, NoFailures, {})
SpecStartup == InitStartup /\ [][NextStartup]_vars

NextNotifier ==
  \/ \E webhookUrl \in WebhookUrls : NewSlackNotifier(webhookUrl)
  \/ \E notification \in Notifications, post \in PostOutcomes :
       sendFailureAlert(notification, post)
  \/ \E notification \in Notifications, post \in PostOutcomes :
       sendRecoveryAlert(notification, post)

\* class SlackNotifier, called in any order
SpecNotifier == Init /\ [][NextNotifier]_vars

NextDatabase ==
  \/ \E result \in Probed, ok \in BOOLEAN :
       insertResult(Stamped(result, now), ok)
  \/ ClockTick
  \/ \E query \in ResultQueries : ApiResults(query)
  \/ \E query \in StatsQueries : ApiStats(query)
  \/ ApiGroupHierarchy
  \/ \E olderThanDays \in {1} : cleanup(olderThanDays) /\ UNCHANGED headlessVars

\* class Database under its callers
SpecDatabase == Init /\ [][NextDatabase]_vars

NextUrlMonitor ==
  \/ StartMonitoring
  \/ \E tm \in timers : CycleTick(tm)
  \/ StopMonitoring
  \/ \E p \in inflight, out \in Outcomes : RequestDone(p, out)
  \/ \E p \in inflight, ok \in BOOLEAN : SaveDone(p, ok)
  \/ \E p \in inflight : RecoveryReturned(p)
  \/ \E p \in inflight : FailureReturned(p)

\* class UrlMonitor, probes of one url free to overlap
InitUrlMonitor == Boot(MaxProbes, FALSE, NoFailures, {})
SpecUrlMonitor == InitUrlMonitor /\ [][NextUrlMonitor]_vars

\* class UrlMonitor, every probe finished before the next tick
InitSerial == Boot(MaxProbes, TRUE, NoFailures, {})
SpecSerial == InitSerial /\ [][NextUrlMonitor]_vars

\* class UrlMonitor, one result at a time, from every streak an earlier part
\* of the session can have left behind: a count of 3 or more without the
\* notified flag exists only while a failure alert is being sent
InitTracker ==
  \E n \in 0..MaxStreak, notified \in BOOLEAN :
    /\ n >= 3 => notified
    /\ Boot(MaxTracked, TRUE, [NoFailures EXCEPT !["a"] = n],
            IF notified THEN {"a"} ELSE {})
SpecTracker == InitTracker /\ [][NextUrlMonitor]_vars

\* class UrlMonitor over two urls: the initial checks of both and
\* MaxTracked invocations more, from every streak an earlier part of the
\* session can have left behind
InitTwoUrls ==
  \E counts \in [Urls -> 0..MaxStreak], notified \in SUBSET Urls :
    /\ \A u \in Urls : counts[u] >= 3 => u \in notified
    /\ BootOver(Configs, NoSource, <<A_US, B_ANY>>,
                Len(<<A_US, B_ANY>>) + MaxTracked, TRUE, counts, notified)
SpecTwoUrls == InitTwoUrls /\ [][NextUrlMonitor]_vars

(***************************************************************************)
(* Properties.                                                             *)
(***************************************************************************)
Range(f) == {f[i] : i \in DOMAIN f}

\* whether an armed timer drives probes of configuration c: a Monitor timer
\* drives its own url, the shared timer of UrlMonitor every configured url
Drives(tm, c) ==
  IF "cfg" \in DOMAIN tm THEN tm.cfg = c ELSE c \in Range(configUrls)

\* the configurations some armed timer drives
Scheduled == {c \in Configs : \E tm \in timers : Drives(tm, c)}

\* invocations for configuration c that have not come back from the store
BeforeStore(c) ==
  Cardinality({p \in Pending({"fetch", "insert", "request", "save"}) :
                 p.cfg = c})

\* rows of the requests table that belong to configuration c
RowsOf(c) ==
  Cardinality({i \in DOMAIN requests :
                 requests[i].url = c.url /\ requests[i].name = c.name})

\* results that have entered the tracker, and alerts sent, for url u
IsResult(e) == e \in {"S", "F"}
IsAlert(e) == e \in {"alertF", "alertR"}
Results(u) == SelectSeq(trace[u], IsResult)
Alerts(u) == SelectSeq(trace[u], IsAlert)

\* no result of url u is inside the tracker
TrackerIdle(u) ==
  ~\E p \in Pending({"recovery", "failure"}) : p.cfg.url = u

\* failures at the end of a sequence of results
RECURSIVE TrailingFailures(_)
TrailingFailures(rs) ==
  IF rs = <<>> \/ rs[Len(rs)] = "S" THEN 0
  ELSE 1 + TrailingFailures(SubSeq(rs, 1, Len(rs) - 1))

\* C1: a second start without a stop in between is answered with the
\* already-running error and leaves exactly one armed timer per target.
C1_SecondStartRejected ==
  Len(startLog) >= 2 =>
    /\ startLog[Len(startLog)] = "already-running"
    /\ \A c \in Scheduled :
         Cardinality({tm \in timers : Drives(tm, c)}) = 1

\* C2: once stop() has returned no timer is armed any more, whatever the
\* target list was, so no tick can fire; the registry is empty.
C2_StopCancelsEveryTimer ==
  ~isRunning => (timers = {} /\ \A u \in Urls : intervals[u] = 0)

\* what the events of a url must be, given its results in order: a failure
\* alert right after the third failure in a row, a recovery alert right
\* after a success that ends three or more failures, and nothing else
RECURSIVE ExpectedTrace(_, _, _)
ExpectedTrace(rs, i, run) ==
  IF i > Len(rs) THEN <<>>
  ELSE IF rs[i] = "F"
       THEN (IF run + 1 = 3 THEN <<"F", "alertF">> ELSE <<"F">>)
              \o ExpectedTrace(rs, i + 1, run + 1)
       ELSE (IF run >= 3 THEN <<"S", "alertR">> ELSE <<"S">>)
              \o ExpectedTrace(rs, i + 1, 0)

\* C3: with the results of a url processed one after another, the third
\* failure in a row sends exactly one failure alert, further failures send
\* none, and the success that follows sends exactly one recovery alert and
\* leaves the count at 0 (the count is always the length of the current run
\* of failures, and the url is flagged exactly from the third failure on).
C3_StreakAlerts ==
  \A u \in Urls :
    /\ trace[u] = ExpectedTrace(Results(u), 1, 0)
    /\ TrackerIdle(u) =>
         /\ failureTracker[u] = TrailingFailures(Results(u))
         /\ u \in notifiedUrls <=> TrailingFailures(Results(u)) >= 3

\* three failures, a fourth, then a success: one alert of each kind, count 0
C3_Witness ==
  /\ trace["a"] = <<"F", "F", "F", "alertF", "F", "S", "alertR">>
  /\ failureTracker["a"] = 0
  /\ "a" \notin notifiedUrls
  /\ inflight = {}

\* the transition table of the failure tracker
TableNext(pre, success) ==
  IF success THEN [n |-> 0, notified |-> FALSE]
  ELSE [n |-> pre.n + 1,
        notified |-> IF pre.n + 1 >= 3 THEN TRUE ELSE pre.notified]

TableAlert(pre, success) ==
  IF success
  THEN (IF pre.notified THEN "alertR" ELSE "none")
  ELSE (IF pre.n + 1 >= 3 /\ ~pre.notified THEN "alertF" ELSE "none")

ResultEvent(success) == IF success THEN "S" ELSE "F"

\* C4: every result processed on its own moves the streak of its url as
\* the table says, from the streak it found to the streak it leaves, and
\* sends exactly the alert the table names.
C4_TransitionTable ==
  [][\A p \in inflight :
       LET u == p.cfg.url
           moved == p \notin inflight'
           gone == ~\E q \in inflight' : q.id = p.id
       IN /\ (p.pc = "save" /\ moved /\ gone) =>
               /\ TableAlert(Streak(u), p.result.success) = "none"
               /\ trace'[u] = Append(trace[u], ResultEvent(p.result.success))
               /\ Streak(u)' = TableNext(Streak(u), p.result.success)
          /\ (p.pc = "save" /\ moved /\ ~gone) =>
               /\ TableAlert(Streak(u), p.result.success) # "none"
               /\ trace'[u] = trace[u]
                    \o <<ResultEvent(p.result.success),
                         TableAlert(Streak(u), p.result.success)>>
          /\ (p.pc \in {"recovery", "failure"} /\ gone) =>
               Streak(u)' = TableNext(p.pre, p.result.success)
    ]_vars

\* a failure that found (2, not notified) has sent the alert and left (3, notified)
C4_Witness ==
  /\ trace["a"] = <<"F", "alertF">>
  /\ failureTracker["a"] = 3
  /\ "a" \in notifiedUrls
  /\ inflight = {}

\* startMonitoring has been called at most once in the session
StartedOnce == nextTimer <= 1

\* C5: between two successes of a url at most one failure alert is sent,
\* whatever the interleaving of its probes (already in a session that was
\* started once, where only a tick can overlap an earlier probe).
C5_OneAlertPerFailureSequence ==
  StartedOnce => \A u \in Urls :
    \A i, j \in DOMAIN trace[u] :
      (i < j /\ trace[u][i] = "alertF" /\ trace[u][j] = "alertF") =>
        \E k \in i..j : trace[u][k] = "S"

\* C6: the streak updates of a url are serialized in the order the results
\* entered the tracker: once the tracker is idle the count is the number of
\* failures since the last success, none lost and none erased.
C6_NoLostStreakUpdate ==
  StartedOnce => \A u \in Urls :
    TrackerIdle(u) => failureTracker[u] = TrailingFailures(Results(u))

\* probes of url u that have come back from the store
PastStore(u) ==
  LET started == {c \in Configs : c.url = u}
      Total[S \in SUBSET started] ==
        IF S = {} THEN 0
        ELSE LET c == CHOOSE x \in S : TRUE
             IN fired[c] + Total[S \ {c}]
  IN Total[started]
       - Cardinality({p \in Pending({"fetch", "insert", "request", "save"}) :
                        p.cfg.url = u})

\* C7: every probe hands its result to the store and then to the failure
\* tracker of its url: what has come back from the store has been tracked.
C7_EveryResultStoredThenTracked ==
  \A u \in Urls : Len(Results(u)) = PastStore(u)

\* the results built by probes that are still pending
BuiltResults == {p.result : p \in Pending({"insert", "save", "recovery", "failure"})}

\* C8: a result is a success exactly when a response was received and its
\* status lies in [200, 400): 404 fails, 301 succeeds.
C8_SuccessIffStatusBelow400 ==
  \A r \in BuiltResults :
    r.success <=> (r.status # 0 /\ r.status >= 200 /\ r.status < 400)

\* C9: a result carries an error message exactly when it is not a success.
C9_ErrorIffFailure ==
  \A r \in BuiltResults : (r.error # "undefined") <=> ~r.success

\* C10 as stated: with no probe pending, every configuration has as many
\* rows as probes were started for it.
C10_OneRowPerTick ==
  inflight = {} => \A c \in Configs : RowsOf(c) = fired[c]

\* C10, amended: every started probe is pending, has stored exactly one
\* row, or had its insert fail and stored none; the table only grows at its
\* end.
C10_OneRowPerStoredTick ==
  /\ [](\A c \in Configs : RowsOf(c) + dropped[c] + BeforeStore(c) = fired[c])
  /\ [][/\ Len(requests') >= Len(requests)
        /\ SubSeq(requests', 1, Len(requests)) = requests]_vars

\* a configuration with a tick beyond its initial check, one row stored and
\* one insert failed
C10_Witness ==
  /\ inflight = {}
  /\ \E c \in Configs : fired[c] >= 2 /\ RowsOf(c) >= 1 /\ dropped[c] >= 1

C12_InflightSurvivesStop ==
  /\ [](shutdown \in {"closed", "exited"} => inflight = {})
  /\ [][(~isRunning /\ ~isRunning') => nextProbe' = nextProbe]_vars

\* C13: whatever a probe ends in, a transport error or a failed insert, the
\* process of a running scheduler stays alive and every target it has
\* started keeps an armed timer.
C13_ProbeFailureKeepsScheduler ==
  (isRunning /\ shutdown \in {"none", "crashed"}) =>
    /\ Alive
    /\ \A c \in Configs : fired[c] >= 1 => \E tm \in timers : Drives(tm, c)

\* how many lines of the notifier's log say that a POST failed
FailedPosts == Cardinality({i \in DOMAIN notifierLog : notifierLog[i] = "failed"})

\* C14: no call of the notifier raises to its caller; with no webhook
\* configured nothing is posted; with one, every call has either got its
\* message accepted or logged the failure of its POST.
C14_NotifierNeverRaises ==
  /\ \A i \in DOMAIN returned : returned[i] = "returned"
  /\ ~enableNotifications => posted = <<>>
  /\ enableNotifications => Len(posted) + FailedPosts = Len(returned)

\* a POST that failed, logged, between calls that returned normally
C14_Witness ==
  /\ enableNotifications
  /\ Len(returned) = MaxAlerts
  /\ FailedPosts >= 1
  /\ \E i \in DOMAIN posted : posted[i].kind = "recovery"

\* the rows of a (url, name, group, country) tuple that a query over the
\* last so many days looks at
RowsInRange(k, days) ==
  {i \in DOMAIN requests :
     /\ GroupKey(requests[i]) = k
     /\ datetime(requests[i].timestamp) >= datetime(now) - days * SecondsPerDay}

\* the time range a stats reply was asked for, in days
AskedDays == ModifierDays[OrElse(reply.query.timeRange, "-24 hours")]

\* the tuple a stats entry is about
StatKey(stat) ==
  [url |-> stat.url, name |-> stat.name, group_name |-> stat.group_name,
   countryCode |-> stat.countryCode]

C16_LastStatusOfOwnTuple ==
  reply.op = "GET /api/stats" =>
    \A stat \in reply.body :
      \E i \in RowsInRange(StatKey(stat), AskedDays) :
        /\ requests[i].timestamp = stat.lastChecked
        /\ requests[i].status = stat.lastStatus

\* how long ago a row was stamped, in ticks
Age(row) == now - row.timestamp

\* C17 as stated: cleanup(N) removes exactly the rows older than N days and
\* returns how many it removed.
C17_DeletesExactlyOlderThanCutoff ==
  [][reply'.op = "cleanup" =>
       LET NotOlder(row) == ~(Age(row) > reply'.olderThanDays * TicksPerDay)
       IN /\ requests' = SelectSeq(requests, NotOlder)
          /\ reply'.changes = Len(requests) - Len(requests')]_vars

\* C17, amended: cleanup(N) compares at whole seconds: it removes exactly
\* the rows whose second lies before the second of now minus N days.  So it
\* removes only rows older than N days, keeps the rows at the boundary and
\* all newer ones, removes every row older than N days by a second or more,
\* and returns how many it removed.
C17_DeletesOlderAtWholeSeconds ==
  [][reply'.op = "cleanup" =>
       LET days == reply'.olderThanDays
           SecondNotBefore(row) ==
             row.timestamp \div TicksPerSecond
               >= (now \div TicksPerSecond) - days * SecondsPerDay
           AtMostDaysOld(row) == Age(row) <= days * TicksPerDay
           OlderByASecond(row) ==
             Age(row) >= days * TicksPerDay + TicksPerSecond
       IN /\ requests' = SelectSeq(requests, SecondNotBefore)
          /\ \A i \in DOMAIN requests :
               /\ AtMostDaysOld(requests[i]) => requests[i] \in Range(requests')
               /\ OlderByASecond(requests[i]) =>
                    requests[i] \notin Range(requests')
          /\ reply'.changes = Len(requests) - Len(requests')]_vars

\* a cleanup that removed a row and kept one stamped exactly a day ago
C17_Witness ==
  /\ reply.op = "cleanup"
  /\ reply.changes >= 1
  /\ \E i \in DOMAIN requests : Age(requests[i]) = reply.olderThanDays * TicksPerDay

\* C18: a result that was just inserted and is then asked for, with a time
\* range that covers it and no filter, comes back equal in every field.
C18_RoundTrip ==
  [][(/\ reply.op = "insertResult"
      /\ reply'.op = "GET /api/results"
      /\ ~Truthy(reply'.query.group)
      /\ ~Truthy(reply'.query.urlName))
       => reply.result \in Range(reply'.body)]_vars

\* whether a stored row is one the query asks for
Asked(row, query) ==
  /\ datetime(row.timestamp)
       >= datetime(now)
            - ModifierDays[OrElse(query.timeRange, "-24 hours")] * SecondsPerDay
  /\ Truthy(query.group) => row.group_name = query.group
  /\ Truthy(query.urlName) => row.name = query.urlName

\* C19: GET /api/results answers with exactly the stored rows that lie in
\* the time range and match the group and the name asked for, newest first.
C19_ResultsFilteredNewestFirst ==
  reply.op = "GET /api/results" =>
    /\ \A i \in DOMAIN requests :
         Asked(requests[i], reply.query) <=>
           \E j \in DOMAIN reply.body :
             [reply.body[j] EXCEPT !.success = requests[i].success]
               = requests[i]
    /\ Len(reply.body)
         = Cardinality({i \in DOMAIN requests : Asked(requests[i], reply.query)})
    /\ \A j, k \in DOMAIN reply.body :
         j < k => reply.body[j].timestamp >= reply.body[k].timestamp

\* the label a stored value is shown under
Labelled(value, sentinel) == IF value \in {"NULL", ""} THEN sentinel ELSE value

\* C20: the hierarchy has a place for every stored (url, name): under its
\* group, or "Ungrouped", and its country, or "Unknown".
C20_HierarchyCoversEveryTarget ==
  reply.op = "GET /api/group-hierarchy" =>
    \A i \in DOMAIN requests :
      \E entry \in reply.body :
        /\ entry.group_name = Labelled(requests[i].group_name, "Ungrouped")
        /\ entry.countryCode = Labelled(requests[i].countryCode, "Unknown")
        /\ [url |-> requests[i].url, name |-> requests[i].name] \in entry.urls

\* a url that begins with the http or the https scheme
HttpScheme(url) ==
  /\ url # Undefined
  /\ \/ startsWith(url, <<"h", "t", "t", "p", ":", "/", "/">>)
     \/ startsWith(url, <<"h", "t", "t", "p", "s", ":", "/", "/">>)

\* the entries of the file the configuration was loaded from
SourceUrls ==
  IF configSource.csv.exists
  THEN [i \in DOMAIN configSource.csv.content |->
          CsvUrlConfig(configSource.csv.content[i],
                       EnvDefaultInterval(configSource))]
  ELSE configSource.json.content.urls

\* C21: the loaded configuration holds exactly the entries of the file whose
\* url begins with an HTTP scheme, in file order, and the monitor is never
\* started on a configuration without targets: the start is aborted.
C21_InvalidSkippedEmptyAborts ==
  /\ Loaded =>
       LET Valid(url) == HttpScheme(url.url)
       IN monitorConfig.urls = SelectSeq(SourceUrls, Valid)
  /\ isRunning => (Loaded /\ monitorConfig.urls # <<>>)

\* the probes whose row the step has just appended to the table
JustStored ==
  {p \in inflight :
     /\ "got" \in DOMAIN p
     /\ ~\E q \in inflight' : q.id = p.id
     /\ Len(requests') = Len(requests) + 1}

\* C22: the row stored for a probe that received a response carries the
\* status of that response and the success flag computed from it, also
\* after a failed insert; a row of status 0 belongs to a probe without a
\* response and is not a success.
C22_StatusZeroOnlyWithoutResponse ==
  /\ [][\A p \in JustStored :
          LET row == requests'[Len(requests')]
          IN IF p.got.received
             THEN /\ row.status = p.got.status
                  /\ row.success = (IF ResponseOk(p.got.status) THEN 1 ELSE 0)
             ELSE row.status = 0]_vars
  /\ [](\A i \in DOMAIN requests :
          requests[i].status = 0 => requests[i].success = 0)

\* C23: the response time of a result is the time that has passed between
\* the start of its probe's request and the moment the result is built, on
\* a response as on an exception, and the stored row carries it.
C23_ResponseTimeIsElapsed ==
  [][/\ \A q \in inflight' \ inflight :
          ("startTime" \in DOMAIN q /\ "result" \in DOMAIN q) =>
            q.result.responseTime = now - q.startTime
     /\ \A p \in JustStored :
          requests'[Len(requests')].responseTime = p.result.responseTime]_vars

\* C24: every target of the loaded configuration has a check interval above
\* zero, and every armed timer a period above zero: an absent, zero,
\* non-numeric or negative interval of the file has given way to the default.
C24_PositiveInterval ==
  /\ Loaded => \A i \in DOMAIN monitorConfig.urls :
                 Interval(monitorConfig.urls[i]) > 0
  /\ \A tm \in timers : "cfg" \in DOMAIN tm => Interval(tm.cfg) > 0

\* the one pending invocation a step has moved on, if it has moved one
Processed == inflight \ inflight'

\* C25: a step that changes the failure count or the notified flag of a
\* url, or sends an alert for it, is the processing of a result of that
\* very url: the streak and the alerts of every other url stay as they are.
C25_OtherUrlsUntouched ==
  [][\A u \in Urls :
       (\/ failureTracker'[u] # failureTracker[u]
        \/ (u \in notifiedUrls') # (u \in notifiedUrls)
        \/ trace'[u] # trace[u])
         => /\ Cardinality(Processed) = 1
            /\ \A p \in Processed :
                 /\ p.pc \in {"save", "recovery", "failure"}
                 /\ p.result.url = u]_vars

\* url a has had its failure alert while url b went from two failures to
\* three in the same cycle and has had its own
C25_Witness ==
  /\ inflight = {}
  /\ "alertF" \in Range(trace["a"])
  /\ "alertF" \in Range(trace["b"])
  /\ failureTracker["a"] # failureTracker["b"]
  /\ notifiedUrls = {"a", "b"}

\* C26: the static files are written only when no probe of the cycle is
\* pending and every configured target has its row in the table, and they
\* show those rows; rows are cleaned up only after the files are written;
\* and a run ends without files only on a failed insert or a failed write,
\* never on the failure of a probe.
C26_CycleJoinsBeforeSnapshot ==
  /\ [][(snapshot'.written /\ ~snapshot.written) =>
          /\ inflight = {}
          /\ \A c \in Configs : RowsOf(c) = fired[c]
          /\ Len(snapshot'.results) = Len(requests)]_vars
  /\ [][Len(requests') < Len(requests) => snapshot.written]_vars
  /\ [](phase \in {"cleaned", "closed"} => snapshot.written)
  /\ [][(phase' = "failed" /\ phase # "failed") =>
          \/ \E c \in Configs : dropped'[c] > dropped[c]
          \/ inflight = {}]_vars

\* a finished run over two targets: one timed out, the other answered 200,
\* both rows are in the files
C26_Witness ==
  /\ phase = "closed"
  /\ snapshot.written
  /\ Len(snapshot.results) = 2
  /\ \E i, j \in DOMAIN snapshot.results :
       /\ snapshot.results[i].status = 0
       /\ snapshot.results[j].status = 200
       /\ snapshot.results[i].name # snapshot.results[j].name

\* C27: the shutdown handler clears the timers, then stops the web server,
\* then closes the database: from the moment the monitor has been stopped
\* on, while the web server goes down and when the database is closed, no
\* monitoring timer is armed.
C27_TimersClearedBeforeClose ==
  /\ [][/\ shutdown' = "stopped" => shutdown = "none"
        /\ shutdown' = "server stopped" => shutdown = "stopped"
        /\ shutdown' = "closed" => shutdown \in {"server stopped", "closed"}
       ]_vars
  /\ [](shutdown \in {"stopped", "server stopped", "closed"} => timers = {})

\* the events of url u since its last success
RECURSIVE SinceLastSuccess(_)
SinceLastSuccess(events) ==
  IF events = <<>> \/ events[Len(events)] = "S" THEN <<>>
  ELSE Append(SinceLastSuccess(SubSeq(events, 1, Len(events) - 1)),
              events[Len(events)])

\* the failure alert of the current streak of url u has gone out
StreakAlerted(u) == "alertF" \in Range(SinceLastSuccess(trace[u]))

\* failed results of url u since its last successful one
StreakLength(u) == TrailingFailures(Results(u))

\* C28: as soon as three failed results in a row of a url have been
\* processed since its last success (or the start), the failure alert of
\* that streak has gone out, whatever happened in earlier streaks; and a url
\* is flagged as notified only while its failure count is 3 or more.
C28_EveryStreakAlerts ==
  \A u \in Urls :
    /\ StreakLength(u) >= 3 => StreakAlerted(u)
    /\ u \in notifiedUrls => failureTracker[u] >= 3

\* C29: the alerts of a url alternate, the first one a failure alert: every
\* recovery alert directly follows a failure alert of the same url, and every
\* failure alert after the first directly follows a recovery alert, whatever
\* the interleaving of the url's probes (already in a session that was
\* started once, where only a tick can overlap an earlier probe).
C29_AlertsAlternate ==
  StartedOnce => \A u \in Urls :
    \A i \in DOMAIN Alerts(u) :
      Alerts(u)[i] = (IF i % 2 = 1 THEN "alertF" ELSE "alertR")

\* a stop has come before: a timer id has been handed out, and no start has
\* been answered since
AfterStop == ~isRunning /\ nextTimer > 0

\* the targets of the timers a step has armed
Armed == {tm.cfg : tm \in timers' \ timers}

\* C30: over every sequence of start and stop calls on Monitor,
\* isMonitorRunning() is true exactly when a start has succeeded with no stop
\* since; getMonitoredURLs() is empty whenever the monitor is not running;
\* and a start that follows a stop succeeds, after which every target it was
\* given is driven by exactly one armed timer again.
C30_StartStopLifecycle ==
  /\ [](isRunning <=> "ok" \in Range(startLog))
  /\ [](~isRunning => \A u \in Urls : intervals[u] = 0)
  /\ [][(AfterStop /\ startLog' # startLog) =>
          /\ isRunning' /\ startLog' = <<"ok">>
          /\ Armed # {}
          /\ \A c \in Armed :
               Cardinality({tm \in timers' : Drives(tm, c)}) = 1]_vars

====
